---- MODULE Spec2Model ----
(***************************************************************************)
(* Model of the CRUD_Hexagonal core: the Entity/User records               *)
(* (core/entities.py), the InMemoryRepository (core/interfaces.py) and the *)
(* CRUDService facade (core/use_cases.py).                                 *)
(*                                                                         *)
(* Python objects are references: the heap maps a reference (1..Len(heap)) *)
(* to the object's fields, and the repository's dict stores references.    *)
(* A dict is a sequence of [k, v] items in insertion order.                *)
(***************************************************************************)
EXTENDS Integers, Sequences, FiniteSets, TLC

\* ---------------------------------------------------------------- bounds
\* number of User objects the caller constructs in one behaviour
MaxObjs == 2
\* number of caller steps (constructions, attribute writes, calls) in one behaviour
MaxSteps == 6

\* ---------------------------------------------------------------- values
\* Python's None, as a reference and as an optional string
None == 0
NoneStr == "None"
\* an id the caller passes explicitly instead of the uuid4 default
ExplicitIds == {101}
\* the name the caller writes into an already constructed user
UpdatedName == "John Smith Updated"

\* keyword arguments the caller constructs users with; the first is the
\* dataclass defaults, the second sets every field to a non-default value
UserArgs ==
  { [created_at |-> NoneStr, updated_at |-> NoneStr, is_active |-> TRUE,
     deleted |-> FALSE, name |-> "", email |-> ""],
    [created_at |-> "t1", updated_at |-> "t2", is_active |-> FALSE,
     deleted |-> TRUE, name |-> "John Smith", email |-> "john.smith@example.com"] }

VARIABLES
  heap,          \* sequence of User objects; a reference is an index into it
  uuids,         \* number of ids the uuid4 default factory has produced
  storage,       \* InMemoryRepository.storage of the repository behind the CRUDService
  storageDirect, \* InMemoryRepository.storage of a repository that is called directly
  last,          \* the most recent caller step and the outcome of the CRUDService call
  lastDirect,    \* the outcome of the same call made directly on the repository
  inserted,      \* history: the ids created and not deleted since, oldest creation first
  factoryIds,    \* history: the users constructed without an explicit id
  held,          \* the sequence object the caller keeps from its latest list_all
  steps          \* number of caller steps taken

vars == <<heap, uuids, storage, storageDirect, last, lastDirect, inserted,
          factoryIds, held, steps>>

\* ---------------------------------------------------------------- entities
\* a default evaluated once, when the class is defined: every user gets it
uuid4_atClassDefinition(n) == 1

\* uuid.uuid4(): a token no earlier call produced
uuid4(n) == n + 1

\* User(...): the dataclass constructor; id is the given one or the factory's
User(id, kw) ==
  [id |-> id, created_at |-> kw.created_at, updated_at |-> kw.updated_at,
   is_active |-> kw.is_active, deleted |-> kw.deleted,
   name |-> kw.name, email |-> kw.email]

\* ---------------------------------------------------------------- dict
DictKeys(d) == { d[i].k : i \in 1..Len(d) }

DictIndex(d, key) == CHOOSE i \in 1..Len(d) : d[i].k = key

\* key in d
DictHas(d, key) == key \in DictKeys(d)

\* d.get(key): the value, or None when the key is absent
DictGet(d, key) == IF DictHas(d, key) THEN d[DictIndex(d, key)].v ELSE None

\* an assignment that moves an existing key to the end, as del d[key]
\* followed by d[key] = value does
DictSet_moveToEnd(d, key, value) ==
  Append(SelectSeq(d, LAMBDA item : item.k # key), [k |-> key, v |-> value])

\* d[key] = value: an existing key keeps its position, a new key is appended
DictSet(d, key, value) ==
  IF DictHas(d, key)
    THEN [d EXCEPT ![DictIndex(d, key)] = [k |-> key, v |-> value]]
    ELSE Append(d, [k |-> key, v |-> value])

\* del d[key]
DictDel(d, key) ==
  LET i == DictIndex(d, key)
  IN  SubSeq(d, 1, i - 1) \o SubSeq(d, i + 1, Len(d))

\* list(d.values())
DictValues(d) == [i \in 1..Len(d) |-> d[i].v]

\* ---------------------------------------------------------------- outcomes
\* what a call leaves behind: the dict, the heap, and what it returned or raised
\* view: the returned sequence is a live view of the dict, not a list of its own
Returns(st, h, kind, ret, list, bool) ==
  [storage |-> st, heap |-> h, kind |-> kind, ret |-> ret, list |-> list,
   view |-> FALSE, bool |-> bool, raised |-> ""]

ReturnEntity(st, h, ref) ==
  Returns(st, h, IF ref = None THEN "none" ELSE "entity", ref, <<>>, FALSE)

ReturnList(st, h, list) == Returns(st, h, "list", None, list, FALSE)

ReturnBool(st, h, b) == Returns(st, h, "bool", None, <<>>, b)

Raises(st, h, exc) ==
  [storage |-> st, heap |-> h, kind |-> "raise", ret |-> None, list |-> <<>>,
   view |-> FALSE, bool |-> FALSE, raised |-> exc]

\* ---------------------------------------------------------------- InMemoryRepository
InMemoryRepository_init == <<>>

\* a get written as storage[entity_id], which raises on a missing key
get_by_id_subscript(st, h, entity_id) ==
  IF DictHas(st, entity_id)
    THEN ReturnEntity(st, h, DictGet(st, entity_id))
    ELSE Raises(st, h, "KeyError")

InMemoryRepository_get_by_id(st, h, entity_id) ==
  ReturnEntity(st, h, DictGet(st, entity_id))

\* a get_all written as return self.storage.values(), a view of the dict
get_all_view(st, h) ==
  [ReturnList(st, h, DictValues(st)) EXCEPT !.view = TRUE]

\* a get_all that lists the newest entry first
get_all_reversed(st, h) ==
  ReturnList(st, h, [i \in 1..Len(st) |-> st[Len(st) + 1 - i].v])

InMemoryRepository_get_all(st, h) ==
  ReturnList(st, h, DictValues(st))

\* a create that keeps the entity already stored under the id
create_keepExisting(st, h, entity) ==
  ReturnEntity(IF DictHas(st, h[entity].id) THEN st
               ELSE DictSet(st, h[entity].id, entity), h, entity)

\* a create that stores a copy of the entity, copy.copy(entity)
create_storesCopy(st, h, entity) ==
  ReturnEntity(DictSet(st, h[entity].id, Len(h) + 1), Append(h, h[entity]), entity)

\* a create that keys the entry by the object's identity, id(entity)
create_keyedByObjectId(st, h, entity) ==
  ReturnEntity(DictSet(st, entity, entity), h, entity)

InMemoryRepository_create(st, h, entity) ==
  ReturnEntity(DictSet(st, h[entity].id, entity), h, entity)

\* an update that copies the new name and email into the stored entity
update_merge(st, h, entity_id, entity) ==
  IF DictHas(st, entity_id)
    THEN ReturnEntity(st,
           [h EXCEPT ![DictGet(st, entity_id)].name = h[entity].name,
                     ![DictGet(st, entity_id)].email = h[entity].email],
           entity)
    ELSE Raises(st, h, "ValueError")

\* an update that stores the entity under its own id
update_keyedByEntityId(st, h, entity_id, entity) ==
  IF DictHas(st, entity_id)
    THEN ReturnEntity(DictSet(st, h[entity].id, entity), h, entity)
    ELSE Raises(st, h, "ValueError")

\* an update that populates updated_at
update_stampsUpdatedAt(st, h, entity_id, entity) ==
  IF DictHas(st, entity_id)
    THEN ReturnEntity(DictSet(st, entity_id, entity),
                      [h EXCEPT ![entity].updated_at = "now"], entity)
    ELSE Raises(st, h, "ValueError")

\* an update that inserts when the id is absent
update_upsert(st, h, entity_id, entity) ==
  ReturnEntity(DictSet(st, entity_id, entity), h, entity)

InMemoryRepository_update(st, h, entity_id, entity) ==
  IF DictHas(st, entity_id)
    THEN ReturnEntity(DictSet(st, entity_id, entity), h, entity)
    ELSE Raises(st, h, "ValueError")

\* a delete written as storage.pop(entity_id, None); return True
delete_alwaysTrue(st, h, entity_id) ==
  IF DictHas(st, entity_id)
    THEN ReturnBool(DictDel(st, entity_id), h, TRUE)
    ELSE ReturnBool(st, h, TRUE)

InMemoryRepository_delete(st, h, entity_id) ==
  IF DictHas(st, entity_id)
    THEN ReturnBool(DictDel(st, entity_id), h, TRUE)
    ELSE ReturnBool(st, h, FALSE)

\* ---------------------------------------------------------------- CRUDService
CRUDService_get(repository, h, entity_id) ==
  InMemoryRepository_get_by_id(repository, h, entity_id)

CRUDService_list_all(repository, h) ==
  InMemoryRepository_get_all(repository, h)

CRUDService_create(repository, h, entity) ==
  InMemoryRepository_create(repository, h, entity)

\* a service update that swallows the repository's failure and returns None
service_update_swallow(repository, h, entity_id, entity) ==
  IF InMemoryRepository_update(repository, h, entity_id, entity).kind = "raise"
    THEN ReturnEntity(repository, h, None)
    ELSE InMemoryRepository_update(repository, h, entity_id, entity)

CRUDService_update(repository, h, entity_id, entity) ==
  InMemoryRepository_update(repository, h, entity_id, entity)

CRUDService_delete(repository, h, entity_id) ==
  InMemoryRepository_delete(repository, h, entity_id)

\* ---------------------------------------------------------------- caller
Refs == 1..Len(heap)

\* ids the caller can name: the explicit ones and those of the objects it holds
KnownIds == ExplicitIds \cup { heap[r].id : r \in Refs }

Outcome(r) ==
  [kind |-> r.kind, ret |-> r.ret, list |-> r.list, view |-> r.view,
   bool |-> r.bool, raised |-> r.raised]

\* a caller step: the call, its arguments, what was stored under the key the
\* call addresses when it was made, and its outcome
Step(op, key, ent, prev, r) ==
  [op |-> op, key |-> key, ent |-> ent, prev |-> prev] @@ Outcome(r)

\* the key a call addresses: create's is the entity's id
Addressed(op, key, ent) == IF op = "create" THEN heap[ent].id ELSE key

\* the history of creations after a call
InsertedAfter(op, key, ent) ==
  IF op = "create"
    THEN IF \E i \in 1..Len(inserted) : inserted[i] = heap[ent].id
           THEN inserted
           ELSE Append(inserted, heap[ent].id)
    ELSE IF op = "delete"
           THEN SelectSeq(inserted, LAMBDA k : k # key)
           ELSE inserted

NoOutcome == Returns(<<>>, <<>>, "none", None, <<>>, FALSE)

\* no sequence returned yet
NoList == [returned |-> FALSE, view |-> FALSE, items |-> <<>>]

\* the sequence object the caller holds after a call: list_all's result
HeldAfter(op, r) ==
  IF op = "list_all"
    THEN [returned |-> TRUE, view |-> r.view, items |-> r.list]
    ELSE held

\* the elements the caller reads from a held sequence: a list has its own,
\* a view shows the dict's values
ReadHeld(hl, st) == IF hl.view THEN DictValues(st) ELSE hl.items

\* the effect of one call made through the service and, with the same
\* arguments, directly on the other repository
Call(op, key, ent, viaService, direct) ==
  /\ steps < MaxSteps
  /\ steps' = steps + 1
  /\ storage' = viaService.storage
  /\ storageDirect' = direct.storage
  /\ heap' = viaService.heap
  /\ last' = Step(op, key, ent, DictGet(storage, Addressed(op, key, ent)), viaService)
  /\ lastDirect' = Step(op, key, ent,
                        DictGet(storageDirect, Addressed(op, key, ent)), direct)
  /\ inserted' = InsertedAfter(op, key, ent)
  /\ held' = HeldAfter(op, viaService)
  /\ UNCHANGED <<uuids, factoryIds>>

Init ==
  /\ heap = <<>>
  /\ uuids = 0
  /\ storage = InMemoryRepository_init
  /\ storageDirect = InMemoryRepository_init
  /\ last = Step("init", None, None, None, NoOutcome)
  /\ lastDirect = Step("init", None, None, None, NoOutcome)
  /\ inserted = <<>>
  /\ factoryIds = {}
  /\ held = NoList
  /\ steps = 0

\* user = User(name=..., email=...): the id comes from the uuid4 factory
NewUserDefaultId ==
  /\ Len(heap) < MaxObjs
  /\ steps < MaxSteps
  /\ \E kw \in UserArgs :
       /\ heap' = Append(heap, User(uuid4(uuids), kw))
       /\ uuids' = uuids + 1
       /\ last' = Step("new", None, Len(heap) + 1, None, NoOutcome)
       /\ lastDirect' = Step("new", None, Len(heap) + 1, None, NoOutcome)
  /\ factoryIds' = factoryIds \cup {Len(heap) + 1}
  /\ steps' = steps + 1
  /\ UNCHANGED <<storage, storageDirect, inserted, held>>

\* user = User(id=..., ...): the caller passes the id
NewUserExplicitId ==
  /\ Len(heap) < MaxObjs
  /\ steps < MaxSteps
  /\ \E id \in KnownIds, kw \in UserArgs :
       /\ heap' = Append(heap, User(id, kw))
       /\ last' = Step("new", None, Len(heap) + 1, None, NoOutcome)
       /\ lastDirect' = Step("new", None, Len(heap) + 1, None, NoOutcome)
  /\ steps' = steps + 1
  /\ UNCHANGED <<uuids, storage, storageDirect, inserted, factoryIds, held>>

\* created_user.name = "John Smith Updated"
SetName ==
  /\ steps < MaxSteps
  /\ \E e \in Refs :
       /\ heap[e].name # UpdatedName
       /\ heap' = [heap EXCEPT ![e].name = UpdatedName]
       /\ last' = Step("setattr", None, e, None, NoOutcome)
       /\ lastDirect' = Step("setattr", None, e, None, NoOutcome)
  /\ steps' = steps + 1
  /\ UNCHANGED <<uuids, storage, storageDirect, inserted, factoryIds, held>>

\* users = crud_service.list_all(); users.append(user)
\* a dict view has no append: the statement raises and changes nothing
HeldAppend ==
  /\ steps < MaxSteps
  /\ held.returned
  /\ \E e \in Refs :
       /\ held' = IF held.view THEN held
                  ELSE [held EXCEPT !.items = Append(held.items, e)]
       /\ last' = Step("list.append", None, e, None, NoOutcome)
       /\ lastDirect' = Step("list.append", None, e, None, NoOutcome)
  /\ steps' = steps + 1
  /\ UNCHANGED <<heap, uuids, storage, storageDirect, inserted, factoryIds>>

\* users = crud_service.list_all(); users.pop()
HeldPop ==
  /\ steps < MaxSteps
  /\ held.returned
  /\ Len(held.items) > 0
  /\ held' = IF held.view THEN held
             ELSE [held EXCEPT !.items = SubSeq(held.items, 1, Len(held.items) - 1)]
  /\ last' = Step("list.pop", None, None, None, NoOutcome)
  /\ lastDirect' = Step("list.pop", None, None, None, NoOutcome)
  /\ steps' = steps + 1
  /\ UNCHANGED <<heap, uuids, storage, storageDirect, inserted, factoryIds>>

Get ==
  \E id \in KnownIds :
    Call("get", id, None,
         CRUDService_get(storage, heap, id),
         InMemoryRepository_get_by_id(storageDirect, heap, id))

ListAll ==
  Call("list_all", None, None,
       CRUDService_list_all(storage, heap),
       InMemoryRepository_get_all(storageDirect, heap))

Create ==
  \E e \in Refs :
    Call("create", None, e,
         CRUDService_create(storage, heap, e),
         InMemoryRepository_create(storageDirect, heap, e))

Update ==
  \E id \in KnownIds, e \in Refs :
    Call("update", id, e,
         CRUDService_update(storage, heap, id, e),
         InMemoryRepository_update(storageDirect, heap, id, e))

Delete ==
  \E id \in KnownIds :
    Call("delete", id, None,
         CRUDService_delete(storage, heap, id),
         InMemoryRepository_delete(storageDirect, heap, id))

Next ==
  \/ NewUserDefaultId
  \/ NewUserExplicitId
  \/ SetName
  \/ HeldAppend
  \/ HeldPop
  \/ Get
  \/ ListAll
  \/ Create
  \/ Update
  \/ Delete

Spec == Init /\ [][Next]_vars

TypeOK ==
  /\ Len(heap) <= MaxObjs
  /\ uuids <= Len(heap)
  /\ \A i \in 1..Len(storage) : storage[i].v \in Refs

\* ---------------------------------------------------------------- properties
\* the entity a get through the service returns in the current state
GetNow(id) == CRUDService_get(storage, heap, id)

\* C1: round trip. create(e) returns e, and a get(e.id) issued right after
\* it returns an entity whose every field equals e's.
C1_RoundTrip ==
  last.op = "create" =>
    /\ last.kind = "entity"
    /\ last.ret = last.ent
    /\ GetNow(heap[last.ent].id).kind = "entity"
    /\ heap[GetNow(heap[last.ent].id).ret] = heap[last.ent]

\* a create has stored an entity under an id that held another entity with
\* different fields, and a get of that id returns the new one
C1_Witness ==
  /\ last.op = "create"
  /\ last.prev # None
  /\ last.prev # last.ent
  /\ heap[last.prev] # heap[last.ent]
  /\ GetNow(heap[last.ent].id).ret = last.ent

\* C2: update replaces. For a stored id, update(id, e2) returns e2, a get(id)
\* afterwards returns e2 with every field e2's, the keys are the same and
\* the entry under every other key is unchanged.
C2_UpdateReplaces ==
  [][ (last'.op = "update" /\ DictHas(storage, last'.key)) =>
        /\ last'.kind = "entity"
        /\ last'.ret = last'.ent
        /\ CRUDService_get(storage', heap', last'.key).ret = last'.ent
        /\ heap'[CRUDService_get(storage', heap', last'.key).ret] = heap[last'.ent]
        /\ DictKeys(storage') = DictKeys(storage)
        /\ \A k \in DictKeys(storage) \ {last'.key} :
             /\ DictGet(storage', k) = DictGet(storage, k)
             /\ heap'[DictGet(storage', k)] = heap[DictGet(storage, k)] ]_vars

\* an update has replaced one of two entries; the replacement differs from
\* the entity it replaced in every field but the id
C2_Witness ==
  /\ last.op = "update"
  /\ last.kind = "entity"
  /\ Len(storage) >= 2
  /\ last.prev # None
  /\ heap[last.prev].name # heap[last.ent].name
  /\ heap[last.prev].email # heap[last.ent].email
  /\ heap[last.prev].created_at # heap[last.ent].created_at
  /\ heap[last.prev].deleted # heap[last.ent].deleted

\* C3: update on an id that is not stored raises the not-found condition and
\* leaves keys, values and order as they were; nothing is inserted, neither
\* under the id nor under e.id.
C3_UpdateMissingFails ==
  [][ (last'.op = "update" /\ ~DictHas(storage, last'.key)) =>
        /\ last'.kind = "raise"
        /\ last'.raised = "ValueError"
        /\ storage' = storage
        /\ heap' = heap
        /\ ~DictHas(storage', last'.key)
        /\ DictHas(storage', heap[last'.ent].id) = DictHas(storage, heap[last'.ent].id) ]_vars

\* an update has failed on a non-empty store that holds neither the id nor e.id
C3_Witness ==
  /\ last.op = "update"
  /\ last.raised = "ValueError"
  /\ Len(storage) >= 1
  /\ ~DictHas(storage, last.key)
  /\ ~DictHas(storage, heap[last.ent].id)
  /\ heap[last.ent].id # last.key

\* C4: delete(id) returns true exactly when id was stored; after a true
\* delete get(id) is absent and the other entries are unchanged; a delete of
\* an absent id returns false, raises nothing and changes nothing, so a
\* second delete of the same id returns false.
C4_Delete ==
  [][ last'.op = "delete" =>
        /\ last'.kind = "bool"
        /\ last'.raised = ""
        /\ last'.bool = DictHas(storage, last'.key)
        /\ heap' = heap
        /\ DictHas(storage, last'.key) =>
             /\ CRUDService_get(storage', heap', last'.key).kind = "none"
             /\ DictKeys(storage') = DictKeys(storage) \ {last'.key}
             /\ \A k \in DictKeys(storage') : DictGet(storage', k) = DictGet(storage, k)
        /\ ~DictHas(storage, last'.key) => storage' = storage
        /\ CRUDService_delete(storage', heap', last'.key).kind = "bool"
        /\ CRUDService_delete(storage', heap', last'.key).bool = FALSE
        /\ CRUDService_delete(storage', heap', last'.key).storage = storage' ]_vars

\* a delete has removed one entry and left another in place
C4_Witness ==
  /\ last.op = "delete"
  /\ last.bool
  /\ last.prev # None
  /\ Len(storage) >= 1
  /\ ~DictHas(storage, last.key)

\* C5: list reflects store. list_all() returns the entities currently
\* stored, one per stored key and none for a deleted key, ordered by the
\* creation of their keys; create(e1), create(e2), delete(e1.id) on an empty
\* store leaves list_all() = [e2].
C5_ListReflectsStore ==
  /\ last.op = "list_all" =>
        /\ last.kind = "list"
        /\ Len(last.list) = Cardinality(DictKeys(storage))
        /\ Len(last.list) = Len(inserted)
        /\ \A i \in 1..Len(inserted) :
             /\ GetNow(inserted[i]).kind = "entity"
             /\ last.list[i] = GetNow(inserted[i]).ret
        /\ \A r \in Refs :
             (\E i \in 1..Len(last.list) : last.list[i] = r)
               <=> (\E k \in DictKeys(storage) : GetNow(k).ret = r)
  /\ \A e1, e2 \in Refs :
        heap[e1].id # heap[e2].id =>
          LET s1 == CRUDService_create(InMemoryRepository_init, heap, e1).storage
              s2 == CRUDService_create(s1, heap, e2).storage
              s3 == CRUDService_delete(s2, heap, heap[e1].id).storage
          IN  CRUDService_list_all(s3, heap).list = <<e2>>

\* list_all() has returned [e2] after e1 and e2 were created and e1 deleted
C5_Witness ==
  /\ last.op = "list_all"
  /\ Len(heap) = 2
  /\ last.list = <<2>>
  /\ inserted = <<heap[2].id>>
  /\ heap[1].id # heap[2].id
  /\ steps >= 6

\* C6: create never rejects a duplicate id. create(e) returns e; a new id
\* adds exactly one entry, a stored id has its entity replaced by e and the
\* number of entries stays; the entries under all other keys are unchanged.
C6_CreateOverwrites ==
  [][ last'.op = "create" =>
        /\ last'.kind = "entity"
        /\ last'.raised = ""
        /\ last'.ret = last'.ent
        /\ DictGet(storage', heap[last'.ent].id) = last'.ent
        /\ ~DictHas(storage, heap[last'.ent].id) =>
             /\ Len(storage') = Len(storage) + 1
             /\ Cardinality(DictKeys(storage')) = Cardinality(DictKeys(storage)) + 1
        /\ DictHas(storage, heap[last'.ent].id) =>
             /\ Len(storage') = Len(storage)
             /\ DictKeys(storage') = DictKeys(storage)
        /\ \A k \in DictKeys(storage) \ {heap[last'.ent].id} :
             /\ DictHas(storage', k)
             /\ DictGet(storage', k) = DictGet(storage, k) ]_vars

\* a create has replaced a different entity under a stored id while another
\* entry was in the store
C6_Witness ==
  /\ last.op = "create"
  /\ last.kind = "entity"
  /\ last.prev # None
  /\ last.prev # last.ent
  /\ Len(storage) >= 2

\* C7: the service is a pass-through. Call by call, a call through the
\* CRUDService and the same call made on an InMemoryRepository directly
\* return the same value, fail alike on update, and leave the same store.
C7_ServicePassThrough ==
  /\ last = lastDirect
  /\ storage = storageDirect

\* an update through the service has failed as the direct one did, on a
\* non-empty store
C7_Witness ==
  /\ last.op = "update"
  /\ last.raised = "ValueError"
  /\ lastDirect.raised = "ValueError"
  /\ Len(storageDirect) >= 1

\* C8: not-found-on-update is the only failure. get, list_all, create and
\* delete return normally in every state (a get miss returns absent, a
\* delete miss returns false), and update fails exactly when its id is not
\* stored.
C8_OnlyUpdateFails ==
  [][ /\ last'.op \in {"get", "list_all", "create", "delete"} =>
           /\ last'.raised = ""
           /\ last'.kind # "raise"
      /\ (last'.op = "get" /\ ~DictHas(storage, last'.key)) =>
           /\ last'.kind = "none"
           /\ last'.ret = None
      /\ (last'.op = "get" /\ DictHas(storage, last'.key)) =>
           /\ last'.kind = "entity"
           /\ last'.ret = DictGet(storage, last'.key)
      /\ (last'.op = "delete" /\ ~DictHas(storage, last'.key)) =>
           /\ last'.kind = "bool"
           /\ last'.bool = FALSE
      /\ last'.op = "update" =>
           /\ (last'.kind = "raise") <=> ~DictHas(storage, last'.key)
           /\ (last'.raised # "") <=> ~DictHas(storage, last'.key) ]_vars

\* a get of an id that is not stored has returned absent on a non-empty store
C8_Witness ==
  /\ last.op = "get"
  /\ last.kind = "none"
  /\ last.raised = ""
  /\ ~DictHas(storage, last.key)
  /\ Len(storage) >= 1

\* C9: update accepts a key/id mismatch. For a stored key k and an entity e
\* with e.id # k, update(k, e) returns e; then get(k) returns e, whose id is
\* still e.id, nothing is created or changed under e.id, and the number of
\* entries is unchanged.
C9_UpdateMismatch ==
  [][ (/\ last'.op = "update"
       /\ DictHas(storage, last'.key)
       /\ heap[last'.ent].id # last'.key) =>
        /\ last'.kind = "entity"
        /\ last'.ret = last'.ent
        /\ CRUDService_get(storage', heap', last'.key).ret = last'.ent
        /\ heap'[last'.ent].id = heap[last'.ent].id
        /\ heap'[last'.ent].id # last'.key
        /\ CRUDService_get(storage', heap', heap[last'.ent].id).ret
             = CRUDService_get(storage, heap, heap[last'.ent].id).ret
        /\ DictHas(storage', heap[last'.ent].id) = DictHas(storage, heap[last'.ent].id)
        /\ Len(storage') = Len(storage) ]_vars

\* an update has stored, under a key, an entity with another id that is
\* itself not a stored key
C9_Witness ==
  /\ last.op = "update"
  /\ last.kind = "entity"
  /\ heap[last.ent].id # last.key
  /\ GetNow(last.key).ret = last.ent
  /\ ~DictHas(storage, heap[last.ent].id)

\* C10: no operation writes entity fields. get, list_all, create, update and
\* delete leave every field of every entity as the caller set it, and no
\* step at all changes the id an entity was constructed with.
C10_FieldsUntouched ==
  [][ /\ last'.op \in {"get", "list_all", "create", "update", "delete"} =>
           heap' = heap
      /\ \A r \in Refs : /\ r \in 1..Len(heap')
                          /\ heap'[r].id = heap[r].id ]_vars

\* an update has stored an entity whose timestamps the caller left unset,
\* and they are still unset; the replaced entity is still not marked deleted
C10_Witness ==
  /\ last.op = "update"
  /\ last.kind = "entity"
  /\ last.prev # None
  /\ last.prev # last.ent
  /\ heap[last.ent].updated_at = NoneStr
  /\ heap[last.ent].created_at = NoneStr
  /\ heap[last.prev].deleted = FALSE

\* C11: identity uniqueness. Two users constructed without an explicit id
\* have distinct ids; creating one leaves the entry of the other as it was,
\* and after both are created, in either order and from any store, a get of
\* each id returns that user.
C11_IdentityUniqueness ==
  /\ [](\A e1, e2 \in factoryIds :
          e1 # e2 =>
            /\ heap[e1].id # heap[e2].id
            /\ LET s1 == CRUDService_create(storage, heap, e1).storage
                    s2 == CRUDService_create(s1, heap, e2).storage
                IN  /\ CRUDService_get(s2, heap, heap[e1].id).ret = e1
                    /\ CRUDService_get(s2, heap, heap[e2].id).ret = e2)
  /\ [][ (last'.op = "create" /\ last'.ent \in factoryIds) =>
          \A e \in factoryIds \ {last'.ent} :
            /\ last'.ret # e
            /\ CRUDService_get(storage', heap', heap[e].id).ret
                 = CRUDService_get(storage, heap, heap[e].id).ret ]_vars

\* two users constructed without an explicit id have both been created and
\* each is stored under its own id
C11_Witness ==
  /\ last.op = "create"
  /\ Cardinality(factoryIds) = 2
  /\ last.ent \in factoryIds
  /\ \A e \in factoryIds : GetNow(heap[e].id).ret = e
  /\ Len(storage) = 2

\* every stored key is the id of the entity stored under it
KeyIdConsistent ==
  \A i \in 1..Len(storage) : heap[storage[i].v].id = storage[i].k

\* the step is an update that succeeded with an entity whose id is not the key
MismatchedUpdate ==
  /\ last'.op = "update"
  /\ last'.kind = "entity"
  /\ heap[last'.ent].id # last'.key

\* C12: key/id consistency. The empty store is consistent, and every step
\* other than a successful update with a mismatched id (a construction, an
\* attribute write, create, delete, get, list_all, a matching or a failed
\* update) takes a consistent store to a consistent store, so get(k) returns
\* an entity with id k; a successful update with a mismatched id takes a
\* consistent store to an inconsistent one.
C12_KeyIdConsistency ==
  /\ (storage = InMemoryRepository_init => KeyIdConsistent)
  /\ [][ /\ (KeyIdConsistent /\ ~MismatchedUpdate) =>
                /\ KeyIdConsistent'
                /\ \A k \in KnownIds' :
                     CRUDService_get(storage', heap', k).kind = "entity" =>
                       heap'[CRUDService_get(storage', heap', k).ret].id = k
         /\ (KeyIdConsistent /\ MismatchedUpdate) => ~KeyIdConsistent' ]_vars

\* a create has replaced an entity under a stored id and a second entry is
\* in place, with every key the id of its entity
C12_Witness ==
  /\ KeyIdConsistent
  /\ last.op \in {"create", "update"}
  /\ last.kind = "entity"
  /\ last.prev # None
  /\ last.prev # last.ent
  /\ heap[last.ent].id = Addressed(last.op, last.key, last.ent)

\* the heap after the caller writes entity.name = UpdatedName
NameWritten(h, e) == [h EXCEPT ![e].name = UpdatedName]

\* the step is a write to an attribute of the entity that the step before
\* passed to a create or to a successful update
WriteAfterStore ==
  /\ last.op \in {"create", "update"}
  /\ last.kind = "entity"
  /\ last'.op = "setattr"
  /\ last'.ent = last.ent

\* C13 as stated: after create(e) or a successful update(k, e), a write to
\* e.name is visible through get and list_all, and a following
\* update(e.id, e) leaves the store's contents as they are.
C13_AsStated ==
  (last.op \in {"create", "update"} /\ last.kind = "entity") =>
    LET k  == Addressed(last.op, last.key, last.ent)
        h2 == NameWritten(heap, last.ent)
        u  == CRUDService_update(storage, h2, h2[last.ent].id, last.ent)
    IN  /\ CRUDService_get(storage, h2, k).ret = last.ent
        /\ h2[CRUDService_get(storage, h2, k).ret].name = UpdatedName
        /\ CRUDService_list_all(u.storage, u.heap).list
             = CRUDService_list_all(storage, h2).list
        /\ \A id \in KnownIds :
             CRUDService_get(u.storage, u.heap, id).ret
               = CRUDService_get(storage, h2, id).ret

\* C13, amended: the store keeps the caller's object. After create(e) or a
\* successful update(k, e), a write to e.name made without any call shows in
\* get of the key e was stored under and in list_all; and an update(k, e)
\* under a key that already holds e changes neither the store nor any entity.
C13_StoreKeepsObject ==
  [][ /\ WriteAfterStore =>
           LET k == Addressed(last.op, last.key, last.ent)
           IN  /\ storage' = storage
               /\ CRUDService_get(storage', heap', k).ret = last.ent
               /\ heap'[CRUDService_get(storage', heap', k).ret].name = UpdatedName
               /\ \E i \in 1..Len(CRUDService_list_all(storage', heap').list) :
                    heap'[CRUDService_list_all(storage', heap').list[i]].name
                      = UpdatedName
               /\ \A i \in 1..Len(CRUDService_list_all(storage', heap').list) :
                    heap'[CRUDService_list_all(storage', heap').list[i]]
                      = NameWritten(heap, last.ent)
                          [CRUDService_list_all(storage, heap).list[i]]
      /\ (last'.op = "update" /\ last'.prev = last'.ent) =>
           /\ last'.kind = "entity"
           /\ storage' = storage
           /\ heap' = heap
           /\ CRUDService_list_all(storage', heap').list
                = CRUDService_list_all(storage, heap).list ]_vars

\* the caller has created a user, renamed it, and updated it under its id
\* with the same object; get returns it with the new name
C13_Witness ==
  /\ last.op = "update"
  /\ last.kind = "entity"
  /\ last.prev = last.ent
  /\ last.key = heap[last.ent].id
  /\ heap[last.ent].name = UpdatedName
  /\ GetNow(last.key).ret = last.ent
  /\ heap[GetNow(last.key).ret].name = UpdatedName

\* the list a list_all through the service returns for a store
ListOf(st, h) == CRUDService_list_all(st, h).list

\* the position of a key in the history of creations
PositionOf(key) == CHOOSE i \in 1..Len(inserted) : inserted[i] = key

\* C14: position in list_all is fixed by the first insertion of a key. A
\* successful update(k, e), and a create of an entity whose id is stored,
\* put the entity at the position the key already has and leave every other
\* element where it is; a create of id k right after a delete(k) puts the
\* entity at the end, behind the unchanged other elements.
C14_PositionFixed ==
  [][ /\ ((last'.op \in {"create", "update"}) /\ last'.kind = "entity"
            /\ last'.prev # None) =>
           LET k == Addressed(last'.op, last'.key, last'.ent)
           IN  /\ inserted' = inserted
               /\ Len(ListOf(storage', heap')) = Len(ListOf(storage, heap))
               /\ ListOf(storage', heap')
                    = [ListOf(storage, heap) EXCEPT ![PositionOf(k)] = last'.ent]
      /\ (last.op = "delete" /\ last.bool /\ last'.op = "create"
            /\ heap[last'.ent].id = last.key) =>
           /\ ListOf(storage', heap') = Append(ListOf(storage, heap), last'.ent)
           /\ inserted'[Len(inserted')] = last.key ]_vars

\* an update has replaced the first of two elements by another entity, and
\* list_all has the new entity first and the other element second
C14_Witness ==
  /\ last.op = "update"
  /\ last.kind = "entity"
  /\ last.prev # None
  /\ last.prev # last.ent
  /\ Len(inserted) = 2
  /\ inserted[1] = last.key
  /\ ListOf(storage, heap)[1] = last.ent
  /\ ListOf(storage, heap)[2] = GetNow(inserted[2]).ret

\* C15: reads do not change the store. get (hit or miss) and list_all leave
\* keys, values, order and entities as they were, and a get miss adds no
\* entry; the sequence list_all returns holds the stored entities at the
\* time of the call and is the caller's own: appending to it or removing
\* from it changes no entry of the store, and a later create, update or
\* delete changes no element of it.
C15_ReadsAndSnapshot ==
  [][ /\ last'.op \in {"get", "list_all"} =>
           /\ storage' = storage
           /\ heap' = heap
           /\ last'.raised = ""
      /\ (last'.op = "get" /\ ~DictHas(storage, last'.key)) =>
           /\ ~DictHas(storage', last'.key)
           /\ Len(storage') = Len(storage)
      /\ last'.op = "list_all" =>
           /\ held'.returned
           /\ ReadHeld(held', storage') = DictValues(storage)
      /\ last'.op \in {"list.append", "list.pop"} =>
           /\ storage' = storage
           /\ heap' = heap
           /\ ListOf(storage', heap') = ListOf(storage, heap)
           /\ Len(ReadHeld(held', storage')) # Len(ReadHeld(held, storage))
      /\ (held.returned /\ last'.op \in {"create", "update", "delete"}) =>
           ReadHeld(held', storage') = ReadHeld(held, storage) ]_vars

\* the caller holds a sequence returned while two entities were stored; one
\* has been deleted since and the sequence still has both
C15_Witness ==
  /\ last.op = "delete"
  /\ last.bool
  /\ held.returned
  /\ Len(ReadHeld(held, storage)) = 2
  /\ Len(storage) = 1
  /\ \E i \in 1..2 : ReadHeld(held, storage)[i] = last.prev
====
